---------------------------- MODULE Spec2Model ----------------------------
(***************************************************************************)
(* The ESG-score / annual-return notebook (term_project.ipynb) as a state  *)
(* machine.  The state is the notebook's global namespace (df_esg,         *)
(* df_prices, start_prices, ..., r, p_value), the text printed so far, the *)
(* statement about to run and the exception raised, if any.  Every action  *)
(* is one statement of a code cell; "Run All" executes them in order and   *)
(* stops at the first exception.                                           *)
(*                                                                         *)
(* Values.  A cell of a table is a record [k, n, d, s]:                    *)
(*   k = "num"  the float n/d (d > 0, lowest terms)                        *)
(*   k = "nan"  NaN, the missing marker                                    *)
(*   k = "inf"  +infinity (n = 1) or -infinity (n = -1)                    *)
(*   k = "str"  the Python str s (a cell of an object column)              *)
(*   k = "date" the Timestamp with ordinal n                               *)
(* Floats are kept as exact rationals; the IEEE special values are kept    *)
(* as themselves, with NaN comparing unequal to everything.                *)
(***************************************************************************)
EXTENDS Integers, Sequences, FiniteSets, TLC

VARIABLES
    esg_csv,            \* the text of sp500_esg_data.csv: rows of tokens
    price_csv,          \* the text of sp500_price_data.csv: header and rows of tokens
    df_esg,             \* DataFrame: Seq of [Symbol, totalEsg]
    df_prices,          \* DataFrame: [columns, data]
    start_prices,       \* Series: Seq of [label, value]
    end_prices,         \* Series
    annual_return,      \* Series
    df_returns,         \* DataFrame: Seq of [Symbol, StartPrice, EndPrice, AnnualReturn]
    df_final,           \* DataFrame: [columns, data]
    df_final_filtered,  \* DataFrame: [columns, data]
    annual_stats,       \* the one-row frame describe_return returned
    r,                  \* Pearson r
    p_value,            \* its p-value
    out,                \* what has been printed, in order
    pc,                 \* the statement about to run
    err                 \* the exception that stopped the run, or "none"

vars == <<esg_csv, price_csv, df_esg, df_prices, start_prices, end_prices,
          annual_return, df_returns, df_final, df_final_filtered,
          annual_stats, r, p_value, out, pc, err>>

---------------------------------------------------------------------------
(* Floats *)

Abs(x) == IF x < 0 THEN -x ELSE x

RECURSIVE GCD(_, _)
GCD(a, b) == IF b = 0 THEN a ELSE GCD(b, a % b)

\* The common factor two integers can be divided by before they are multiplied
\* (1 when either is 0).
Reduce(a, b) == IF a = 0 \/ b = 0 THEN 1 ELSE GCD(Abs(a), Abs(b))

\* a/b <= c/d for a, c >= 0 and b, d > 0, by continued fractions, so that no
\* product is formed.
RECURSIVE FracLe(_, _, _, _)
FracLe(a, b, c, d) ==
    IF a \div b # c \div d THEN a \div b < c \div d
    ELSE IF a % b = 0 THEN TRUE
    ELSE IF c % d = 0 THEN FALSE
    ELSE FracLe(d, c % d, b, a % b)

Num(n, d) ==
    LET g == GCD(Abs(n), Abs(d))
        sg == IF d < 0 THEN -1 ELSE 1
    IN  [k |-> "num", n |-> sg * (n \div g), d |-> sg * (d \div g), s |-> ""]

Flt(i)   == [k |-> "num", n |-> i, d |-> 1, s |-> ""]
NaN      == [k |-> "nan", n |-> 0, d |-> 1, s |-> ""]
Inf(sg)  == [k |-> "inf", n |-> sg, d |-> 1, s |-> ""]
Str(t)   == [k |-> "str", n |-> 0, d |-> 1, s |-> t]
Date(o)  == [k |-> "date", n |-> o, d |-> 1, s |-> ""]
Unset    == [k |-> "unset", n |-> 0, d |-> 1, s |-> ""]

IsNum(v)  == v.k = "num"
IsNaN(v)  == v.k = "nan"
IsInf(v)  == v.k = "inf"
IsStr(v)  == v.k = "str"
IsFloat(v) == v.k \in {"num", "nan", "inf"}
IsFinite(v) == v.k = "num"

Sign(v) == IF IsInf(v) THEN v.n
           ELSE IF v.n > 0 THEN 1 ELSE IF v.n < 0 THEN -1 ELSE 0

\* IEEE-754 arithmetic on floats (numpy float64 scalars under errstate "ignore").
FNeg(a) == IF IsNaN(a) THEN NaN
           ELSE IF IsInf(a) THEN Inf(-a.n)
           ELSE Num(-a.n, a.d)

FAdd(a, b) ==
    IF IsNaN(a) \/ IsNaN(b) THEN NaN
    ELSE IF IsInf(a) /\ IsInf(b) THEN (IF a.n = b.n THEN a ELSE NaN)
    ELSE IF IsInf(a) THEN a
    ELSE IF IsInf(b) THEN b
    ELSE LET g == GCD(a.d, b.d)
         IN  Num(a.n * (b.d \div g) + b.n * (a.d \div g), a.d * (b.d \div g))

FSub(a, b) == FAdd(a, FNeg(b))

FMul(a, b) ==
    IF IsNaN(a) \/ IsNaN(b) THEN NaN
    ELSE IF IsInf(a) \/ IsInf(b)
         THEN (IF Sign(a) * Sign(b) = 0 THEN NaN ELSE Inf(Sign(a) * Sign(b)))
    ELSE LET g1 == Reduce(a.n, b.d)
             g2 == Reduce(b.n, a.d)
         IN  Num((a.n \div g1) * (b.n \div g2), (a.d \div g2) * (b.d \div g1))

FDiv(a, b) ==
    IF IsNaN(a) \/ IsNaN(b) THEN NaN
    ELSE IF IsInf(a) THEN (IF IsInf(b) THEN NaN
                           ELSE Inf(a.n * (IF b.n < 0 THEN -1 ELSE 1)))
    ELSE IF IsInf(b) THEN Flt(0)
    ELSE IF b.n = 0 THEN (IF a.n = 0 THEN NaN ELSE Inf(Sign(a)))
    ELSE LET g1 == Reduce(a.n, b.n)
             g2 == Reduce(a.d, b.d)
         IN  Num((a.n \div g1) * (b.d \div g2), (a.d \div g2) * (b.n \div g1))

\* Comparisons: anything compared with NaN is False.
FLt(a, b) ==
    IF IsNaN(a) \/ IsNaN(b) THEN FALSE
    ELSE IF IsInf(a) THEN a.n = -1 /\ ~(IsInf(b) /\ b.n = -1)
    ELSE IF IsInf(b) THEN b.n = 1
    ELSE a.n * b.d < b.n * a.d

FEq(a, b) == IF IsNaN(a) \/ IsNaN(b) THEN FALSE ELSE a = b
FLe(a, b) == FLt(a, b) \/ FEq(a, b)

---------------------------------------------------------------------------
(* pd.read_csv *)

\* Tokens float() accepts, with their values.
NumericTokens == {"0", "10", "20", "30", "40", "100", "110", "120", "140",
                  "150", "155", "160", "800", "805", "810"}

NumberOf(t) ==
    CASE t = "0" -> 0     [] t = "10" -> 10   [] t = "20" -> 20
      [] t = "30" -> 30   [] t = "40" -> 40   [] t = "100" -> 100
      [] t = "110" -> 110 [] t = "120" -> 120 [] t = "140" -> 140
      [] t = "150" -> 150 [] t = "155" -> 155 [] t = "160" -> 160
      [] t = "800" -> 800 [] t = "805" -> 805 [] t = "810" -> 810

\* read_csv's default na_values (those the inputs use).
NaTokens == {"", "N/A", "NA", "NaN", "nan", "null"}

\* One column of a file: a column in which every token is a number or an NA
\* token is a float column; any other token makes it an object column, in
\* which the NA tokens are still NaN and every other cell is the str it was.
ReadColumn(tokens) ==
    LET numeric == \A i \in 1..Len(tokens) : tokens[i] \in NumericTokens \cup NaTokens
    IN  [i \in 1..Len(tokens) |->
            IF tokens[i] \in NaTokens THEN NaN
            ELSE IF numeric THEN Flt(NumberOf(tokens[i]))
            ELSE Str(tokens[i])]

\* Date tokens that parse, with the day they name.
DateTokens == {"2023-01-03", "2023-01-04", "2024-08-30"}

DateOrdinal(t) ==
    CASE t = "2023-01-03" -> 20230103
      [] t = "2023-01-04" -> 20230104
      [] t = "2024-08-30" -> 20240830

\* parse_dates=["Date"]: the column becomes datetime64 when every value
\* parses; otherwise read_csv leaves it an object column of the strings.
ParseDates(tokens) ==
    IF \A i \in 1..Len(tokens) : tokens[i] \in DateTokens
    THEN [i \in 1..Len(tokens) |-> Date(DateOrdinal(tokens[i]))]
    ELSE [i \in 1..Len(tokens) |-> Str(tokens[i])]

Column(rows, j) == [i \in 1..Len(rows) |-> rows[i][j]]

\* pd.read_csv(path, parse_dates=dates): a DataFrame [columns, data], data a
\* sequence of rows, each a function from the column names to values.
read_csv(csv, dates) ==
    LET ncol == Len(csv.header)
        cols == [j \in 1..ncol |->
                    IF csv.header[j] \in dates
                    THEN ParseDates(Column(csv.rows, j))
                    ELSE ReadColumn(Column(csv.rows, j))]
        names == {csv.header[j] : j \in 1..ncol}
        at(c) == CHOOSE j \in 1..ncol : csv.header[j] = c
    IN  [columns |-> csv.header,
         data    |-> [i \in 1..Len(csv.rows) |-> [c \in names |-> cols[at(c)][i]]]]

---------------------------------------------------------------------------
(* DataFrame and Series *)

\* A name that no statement has bound yet.
NotDefined == [columns |-> <<>>, data |-> <<>>]
NoSeries   == <<>>

Labels(df) == {df.columns[j] : j \in 1..Len(df.columns)}

\* The elements of s at the positions in mask, in order (a boolean-mask
\* selection).
Pick(s, mask) ==
    LET F[i \in 0..Len(s)] ==
            IF i = 0 THEN <<>>
            ELSE IF i \in mask THEN Append(F[i - 1], s[i]) ELSE F[i - 1]
    IN  F[Len(s)]

\* column == "literal" for one cell: a datetime64 cell is compared with the
\* Timestamp the literal parses to, a str cell with the literal itself.
DateEquals(cell, literal) ==
    IF cell.k = "date"
    THEN literal \in DateTokens /\ cell.n = DateOrdinal(literal)
    ELSE cell.k = "str" /\ cell.s = literal

\* RowsOn with a nearest-date fallback: when no row matches, every row is
\* offered and .iloc[0] takes the first.
RowsOnOrNearest(df, literal) ==
    LET mask == {i \in 1..Len(df.data) : DateEquals(df.data[i]["Date"], literal)}
    IN  IF mask = {} THEN df.data ELSE Pick(df.data, mask)

\* df[df["Date"] == literal]: the exactly matching rows.
RowsOn(df, literal) ==
    Pick(df.data, {i \in 1..Len(df.data) : DateEquals(df.data[i]["Date"], literal)})

\* .iloc[0] of a selection of df: the first row as a Series, labelled by the
\* column names in column order.
iloc0(df, rows) ==
    [j \in 1..Len(df.columns) |->
        [label |-> df.columns[j], value |-> rows[1][df.columns[j]]]]

\* series[1:]
From1(s) == SubSeq(s, 2, Len(s))

\* One element of an object-dtype true division: NaN operands are masked out,
\* a str operand makes Python raise, anything else is float division.
DivRaises(a, b) == ~IsNaN(a) /\ ~IsNaN(b) /\ (~IsFloat(a) \/ ~IsFloat(b))
ObjDiv(a, b)    == IF IsNaN(a) \/ IsNaN(b) THEN NaN ELSE FDiv(a, b)
ObjSub(a, b)    == IF IsNaN(a) \/ IsNaN(b) THEN NaN ELSE FSub(a, b)

\* (end / start) - 1, elementwise over two Series with the same labels.
SeriesRaises(e, s) == \E i \in 1..Len(e) : DivRaises(e[i].value, s[i].value)

\* The formula of the notebook's prose, ((End / Start) - 1) * 100.
ReturnOfPercent(endPrice, startPrice) ==
    FMul(ObjSub(ObjDiv(endPrice, startPrice), Flt(1)), Flt(100))

ReturnOf(endPrice, startPrice) == ObjSub(ObjDiv(endPrice, startPrice), Flt(1))

ReturnSeries(e, s) ==
    [i \in 1..Len(e) |->
        [label |-> e[i].label, value |-> ReturnOf(e[i].value, s[i].value)]]

\* pd.DataFrame({"Symbol": ..., "StartPrice": ..., "EndPrice": ..., "AnnualReturn": ...}):
\* the four arrays side by side, row i from position i of each.
ReturnsFrame(sp, ep, ar) ==
    [columns |-> <<"Symbol", "StartPrice", "EndPrice", "AnnualReturn">>,
     data    |-> [i \in 1..(Len(sp) - 1) |->
                    [c \in {"Symbol", "StartPrice", "EndPrice", "AnnualReturn"} |->
                        CASE c = "Symbol"       -> Str(sp[i + 1].label)
                          [] c = "StartPrice"   -> sp[i + 1].value
                          [] c = "EndPrice"     -> ep[i + 1].value
                          [] c = "AnnualReturn" -> ar[i].value]]]

\* left.merge(right, on="Symbol"): the inner join; for every left row, in
\* order, one row per right row with the same Symbol.
RECURSIVE Flatten(_)
Flatten(ss) == IF ss = <<>> THEN <<>> ELSE Head(ss) \o Flatten(Tail(ss))

JoinRow(l, rt) ==
    [c \in DOMAIN l \cup DOMAIN rt |-> IF c \in DOMAIN l THEN l[c] ELSE rt[c]]

\* The rows of right with the Symbol of the left row l, and the columns right
\* adds to the key.
MatchingRows(right, l) ==
    Pick(right.data, {i \in 1..Len(right.data) : right.data[i]["Symbol"] = l["Symbol"]})

OtherColumns(right) ==
    Pick(right.columns, {j \in 1..Len(right.columns) : right.columns[j] # "Symbol"})

\* merge with how="left": a left row without a match is kept, NaN-filled.
mergeLeft(left, right) ==
    LET rest == OtherColumns(right)
        Blank == [c \in {rest[j] : j \in 1..Len(rest)} |-> NaN]
        Matches(l) ==
            LET hit == MatchingRows(right, l)
            IN  IF hit = <<>> THEN <<JoinRow(l, Blank)>>
                ELSE [i \in 1..Len(hit) |-> JoinRow(l, hit[i])]
    IN  [columns |-> left.columns \o rest,
         data    |-> Flatten([i \in 1..Len(left.data) |-> Matches(left.data[i])])]

merge(left, right) ==
    LET Matches(l) ==
            LET hit == MatchingRows(right, l)
            IN  [i \in 1..Len(hit) |-> JoinRow(l, hit[i])]
    IN  [columns |-> left.columns \o OtherColumns(right),
         data    |-> Flatten([i \in 1..Len(left.data) |-> Matches(left.data[i])])]

\* df[name] = values: the column added to (or overwritten in) the frame.
WithColumn(df, name, values) ==
    [columns |-> IF name \in Labels(df) THEN df.columns ELSE Append(df.columns, name),
     data    |-> [i \in 1..Len(df.data) |->
                    [c \in DOMAIN df.data[i] \cup {name} |->
                        IF c = name THEN values[i] ELSE df.data[i][c]]]]

\* df[[names]]: a new frame with exactly these columns.
Project(df, names) ==
    [columns |-> names,
     data    |-> [i \in 1..Len(df.data) |->
                    [c \in {names[j] : j \in 1..Len(names)} |-> df.data[i][c]]]]

\* pd.to_numeric(value, errors="coerce") for one cell: a float stays what it
\* is (infinity included), a str is parsed, what does not parse is NaN.
to_numeric(v) ==
    IF IsFloat(v) THEN v
    ELSE IF IsStr(v) /\ v.s \in NumericTokens THEN Flt(NumberOf(v.s))
    ELSE NaN

ColumnOf(df, name) == [i \in 1..Len(df.data) |-> df.data[i][name]]

---------------------------------------------------------------------------
(* describe_return *)

dropna(s) == Pick(s, {i \in 1..Len(s) : ~IsNaN(s[i])})

Insert(sorted, x) ==
    LET k == Cardinality({i \in 1..Len(sorted) : FLe(sorted[i], x)})
    IN  SubSeq(sorted, 1, k) \o <<x>> \o SubSeq(sorted, k + 1, Len(sorted))

Sort(s) ==
    LET S[i \in 0..Len(s)] == IF i = 0 THEN <<>> ELSE Insert(S[i - 1], s[i])
    IN  S[Len(s)]

Sum(s) ==
    LET S[i \in 0..Len(s)] == IF i = 0 THEN Flt(0) ELSE FAdd(S[i - 1], s[i])
    IN  S[Len(s)]

\* Series.min() / Series.max(): NaN for an empty Series.
SeriesMin(s) == IF s = <<>> THEN NaN ELSE Sort(s)[1]
SeriesMax(s) == IF s = <<>> THEN NaN ELSE Sort(s)[Len(s)]

SeriesMean(s) == FDiv(Sum(s), Flt(Len(s)))

SeriesMedian(s) ==
    LET n == Len(s)
        t == Sort(s)
    IN  IF n = 0 THEN NaN
        ELSE IF n % 2 = 1 THEN t[(n + 1) \div 2]
        ELSE FDiv(FAdd(t[n \div 2], t[n \div 2 + 1]), Flt(2))

\* Series.var(): the sample variance (ddof = 1).
SeriesVar(s) ==
    LET m  == SeriesMean(s)
        sq == [i \in 1..Len(s) |-> FMul(FSub(s[i], m), FSub(s[i], m))]
    IN  IF Len(s) < 2 THEN NaN ELSE FDiv(Sum(sq), Flt(Len(s) - 1))

NoStats == [Label |-> "", Count |-> -1, Min |-> Unset, Max |-> Unset,
            Range |-> Unset, Mean |-> Unset, Median |-> Unset,
            Variance |-> Unset]

\* describe_return counting the rows before dropna().
describe_return_all_rows(group, label) ==
    LET data == dropna(ColumnOf(group, "AnnualReturn"))
    IN  [Label    |-> label,
         Count    |-> Len(group.data),
         Min      |-> SeriesMin(data),
         Max      |-> SeriesMax(data),
         Range    |-> FSub(SeriesMax(data), SeriesMin(data)),
         Mean     |-> SeriesMean(data),
         Median   |-> SeriesMedian(data),
         Variance |-> SeriesVar(data)]

\* describe_return(group, label).  "Std Dev", "Skewness" and "Kurtosis" are
\* irrational functions of the same data and are not carried in the model.
describe_return(group, label) ==
    LET data == dropna(ColumnOf(group, "AnnualReturn"))
    IN  [Label    |-> label,
         Count    |-> Len(data),
         Min      |-> SeriesMin(data),
         Max      |-> SeriesMax(data),
         Range    |-> FSub(SeriesMax(data), SeriesMin(data)),
         Mean     |-> SeriesMean(data),
         Median   |-> SeriesMedian(data),
         Variance |-> SeriesVar(data)]

---------------------------------------------------------------------------
(* stats.pearsonr *)

(***************************************************************************)
(* r and the p-value are records [k, n, d, size]:                          *)
(*   k = "num"   the number n/d                                            *)
(*   k = "nan"   NaN                                                       *)
(*   k = "root"  r = sign(n) * sqrt(|n|/d): r is kept through its square   *)
(*   k = "tail"  the two-sided p-value of a sample of `size` pairs whose   *)
(*               r squared is n/d, i.e. 2 * sf(|r|) of the beta            *)
(*               distribution on (-1, 1) with a = b = size/2 - 1           *)
(***************************************************************************)
StatNum(n, d)    == [k |-> "num", n |-> n, d |-> d, size |-> 0]
StatNaN          == [k |-> "nan", n |-> 0, d |-> 1, size |-> 0]
StatUnset        == [k |-> "unset", n |-> 0, d |-> 1, size |-> 0]
StatRoot(sg, q)  == [k |-> "root", n |-> sg * q.n, d |-> q.d, size |-> 0]
StatTail(q, sz)  == [k |-> "tail", n |-> q.n, d |-> q.d, size |-> sz]

\* np.sign of a float, as a float.
NpSign(v) == IF IsNaN(v) THEN NaN ELSE Flt(Sign(v))

ToStat(v) == IF IsNaN(v) THEN StatNaN ELSE StatNum(v.n, v.d)

IsConstant(x) == \A i \in 1..Len(x) : FEq(x[i], x[1])

\* Returns [raises, r, p].
pearsonr(x, y) ==
    LET n   == Len(x)
        mx  == SeriesMean(x)
        my  == SeriesMean(y)
        sxx == Sum([i \in 1..n |-> FMul(FSub(x[i], mx), FSub(x[i], mx))])
        syy == Sum([i \in 1..n |-> FMul(FSub(y[i], my), FSub(y[i], my))])
        sxy == Sum([i \in 1..n |-> FMul(FSub(x[i], mx), FSub(y[i], my))])
        q   == FDiv(FMul(sxy, sxy), FMul(sxx, syy))
    IN  IF n < 2
        THEN [raises |-> "ValueError", r |-> StatUnset, p |-> StatUnset]
        ELSE IF IsConstant(x) \/ IsConstant(y)
        THEN [raises |-> "none", r |-> StatNaN, p |-> StatNaN]
        ELSE IF n = 2
        THEN [raises |-> "none",
              r |-> ToStat(FMul(NpSign(FSub(x[2], x[1])), NpSign(FSub(y[2], y[1])))),
              p |-> StatNum(1, 1)]
        ELSE IF ~IsFinite(q)
        THEN [raises |-> "none", r |-> StatNaN, p |-> StatNaN]
        ELSE IF q.n = 0
        THEN [raises |-> "none", r |-> StatNum(0, 1), p |-> StatNum(1, 1)]
        ELSE IF q.n = q.d
        THEN [raises |-> "none", r |-> StatNum(Sign(sxy), 1), p |-> StatNum(0, 1)]
        ELSE [raises |-> "none", r |-> StatRoot(Sign(sxy), q), p |-> StatTail(q, n)]

\* The r squared, in millionths, at which the two-sided p-value of a sample
\* of `size` pairs is 0.05 (size 4: exactly 0.95 squared).
CritSq(size) ==
    CASE size = 3 -> 993844 [] size = 4 -> 902500 [] size = 5 -> 771480
      [] size = 6 -> 658372 [] size = 7 -> 569259 [] size = 8 -> 499474

\* p_value <= 0.05, as Python evaluates it: False for NaN.
AlphaPercent == 5

LeAlpha(p) ==
    CASE p.k = "num"  -> p.n * 100 <= AlphaPercent * p.d
      [] p.k = "tail" -> FracLe(CritSq(p.size), 1000000, p.n, p.d)
      [] OTHER        -> FALSE

---------------------------------------------------------------------------
(* The input files *)

MaxPriceRows == 3
MaxEsgRows   == 3

SeqsUpTo(S, n) == UNION {[1..k -> S] : k \in 0..n}

PriceHeader == <<"Date", "AAPL", "TSLA", "MSFT">>
EsgHeader   == <<"Symbol", "totalEsg">>

\* The dates the notebook asks for.
StartDate == "2023-01-03"
EndDate   == "2024-08-30"

\* A price row of the given day; "2023-01-04" and an unparsable date carry
\* prices of their own, so a row taken in place of another shows.
BookRow(date) ==
    CASE date = StartDate -> <<date, "150", "800", "100">>
      [] date = EndDate   -> <<date, "160", "810", "120">>
      [] OTHER            -> <<date, "155", "805", "110">>

DateChoices == {StartDate, EndDate, "2023-01-04", "not-a-date"}

\* Price files that differ in the days they hold.
DatedPriceFiles ==
    {[header |-> PriceHeader, rows |-> [i \in DOMAIN ds |-> BookRow(ds[i])]] :
        ds \in SeqsUpTo(DateChoices, MaxPriceRows)}

PriceTokens == {"150", "160", "0", "N/A", "abc"}
OtherPairs  == {<<"800", "810">>, <<"0", "810">>, <<"N/A", "810">>, <<"0", "0">>}

\* Price files that hold both days and differ in the prices.
CellPriceFiles ==
    {[header |-> PriceHeader \o extra[1],
      rows   |-> << <<StartDate, a[1], t[1], "100">> \o extra[2],
                    <<EndDate,   a[2], t[2], "120">> \o extra[3] >>] :
        a \in PriceTokens \X PriceTokens, t \in OtherPairs,
        extra \in { << <<>>, <<>>, <<>> >>, << <<"NVDA">>, <<"100">>, <<"140">> >> }}

CleanPriceFiles ==
    {[header |-> PriceHeader, rows |-> <<BookRow(StartDate), BookRow(EndDate)>>]}

EsgSymbols == {"AAPL", "TSLA", "ZZZZ"}
EsgTokens  == {"10", "20", "N/A", "abc"}

\* ESG files of up to MaxEsgRows rows.
RowEsgFiles ==
    {[header |-> EsgHeader, rows |-> rows] :
        rows \in SeqsUpTo({<<sy, t>> : sy \in EsgSymbols, t \in EsgTokens}, MaxEsgRows)}

FixedEsgFiles ==
    {[header |-> EsgHeader,
      rows |-> << <<"AAPL", "10">>, <<"TSLA", "20">>, <<"MSFT", "30">>, <<"NVDA", "40">> >>],
     [header |-> EsgHeader,
      rows |-> << <<"AAPL", "30">>, <<"TSLA", "N/A">>, <<"MSFT", "10">>, <<"NVDA", "20">> >>],
     [header |-> EsgHeader,
      rows |-> << <<"AAPL", "20">>, <<"TSLA", "abc">>, <<"MSFT", "10">> >>],
     [header |-> EsgHeader,
      rows |-> << <<"MSFT", "10">>, <<"AAPL", "20">>, <<"TSLA", "20">>, <<"NVDA", "30">> >>],
     [header |-> EsgHeader, rows |-> << <<"AAPL", "10">>, <<"ZZZZ", "20">> >>],
     [header |-> EsgHeader, rows |-> << <<"AAPL", "10">> >>],
     [header |-> EsgHeader, rows |-> << >>]}

Inputs ==
    (FixedEsgFiles \X (DatedPriceFiles \cup CellPriceFiles))
        \cup (RowEsgFiles \X CleanPriceFiles)

---------------------------------------------------------------------------
(* The notebook *)

Init ==
    /\ \E in \in Inputs : esg_csv = in[1] /\ price_csv = in[2]
    /\ df_esg = NotDefined
    /\ df_prices = NotDefined
    /\ start_prices = NoSeries
    /\ end_prices = NoSeries
    /\ annual_return = NoSeries
    /\ df_returns = NotDefined
    /\ df_final = NotDefined
    /\ df_final_filtered = NotDefined
    /\ annual_stats = NoStats
    /\ r = StatUnset
    /\ p_value = StatUnset
    /\ out = <<>>
    /\ pc = "L117"
    /\ err = "none"

At(line) == pc = line /\ err = "none"

\* df_esg = pd.read_csv(esg_data)
ReadEsg ==
    /\ At("L117")
    /\ df_esg' = read_csv(esg_csv, {})
    /\ pc' = "L118"
    /\ UNCHANGED <<esg_csv, price_csv, df_prices, start_prices, end_prices,
                   annual_return, df_returns, df_final, df_final_filtered,
                   annual_stats, r, p_value, out, err>>

\* df_prices = pd.read_csv(price_data, parse_dates=["Date"])
ReadPrices ==
    /\ At("L118")
    /\ df_prices' = read_csv(price_csv, {"Date"})
    /\ pc' = "L172"
    /\ UNCHANGED <<esg_csv, price_csv, df_esg, start_prices, end_prices,
                   annual_return, df_returns, df_final, df_final_filtered,
                   annual_stats, r, p_value, out, err>>

\* start_prices = df_prices[df_prices["Date"] == "2023-01-03"].iloc[0]
SelectStart ==
    /\ At("L172")
    /\ LET rows == RowsOn(df_prices, StartDate)
       IN  IF rows = <<>>
           THEN err' = "IndexError" /\ UNCHANGED <<start_prices, pc>>
           ELSE /\ start_prices' = iloc0(df_prices, rows)
                /\ pc' = "L173"
                /\ UNCHANGED err
    /\ UNCHANGED <<esg_csv, price_csv, df_esg, df_prices, end_prices,
                   annual_return, df_returns, df_final, df_final_filtered,
                   annual_stats, r, p_value, out>>

\* end_prices = df_prices[df_prices["Date"] == "2024-08-30"].iloc[0]
SelectEnd ==
    /\ At("L173")
    /\ LET rows == RowsOn(df_prices, EndDate)
       IN  IF rows = <<>>
           THEN err' = "IndexError" /\ UNCHANGED <<end_prices, pc>>
           ELSE /\ end_prices' = iloc0(df_prices, rows)
                /\ pc' = "L174"
                /\ UNCHANGED err
    /\ UNCHANGED <<esg_csv, price_csv, df_esg, df_prices, start_prices,
                   annual_return, df_returns, df_final, df_final_filtered,
                   annual_stats, r, p_value, out>>

\* annual_return = (end_prices[1:] / start_prices[1:]) - 1
ComputeReturn ==
    /\ At("L174")
    /\ IF SeriesRaises(From1(end_prices), From1(start_prices))
       THEN err' = "TypeError" /\ UNCHANGED <<annual_return, pc>>
       ELSE /\ annual_return' = ReturnSeries(From1(end_prices), From1(start_prices))
            /\ pc' = "L176"
            /\ UNCHANGED err
    /\ UNCHANGED <<esg_csv, price_csv, df_esg, df_prices, start_prices,
                   end_prices, df_returns, df_final, df_final_filtered,
                   annual_stats, r, p_value, out>>

\* df_returns = pd.DataFrame({...})
BuildReturns ==
    /\ At("L176")
    /\ df_returns' = ReturnsFrame(start_prices, end_prices, annual_return)
    /\ pc' = "L202"
    /\ UNCHANGED <<esg_csv, price_csv, df_esg, df_prices, start_prices,
                   end_prices, annual_return, df_final, df_final_filtered,
                   annual_stats, r, p_value, out, err>>

\* df_final = df_esg.merge(df_returns, on="Symbol")
Merge ==
    /\ At("L202")
    /\ df_final' = merge(df_esg, df_returns)
    /\ pc' = "L203"
    /\ UNCHANGED <<esg_csv, price_csv, df_esg, df_prices, start_prices,
                   end_prices, annual_return, df_returns, df_final_filtered,
                   annual_stats, r, p_value, out, err>>

\* df_final["PriceDifference"] = df_final["EndPrice"] - df_final["StartPrice"]
AddPriceDifference ==
    /\ At("L203")
    /\ IF \E i \in 1..Len(df_final.data) :
            DivRaises(df_final.data[i]["EndPrice"], df_final.data[i]["StartPrice"])
       THEN err' = "TypeError" /\ UNCHANGED <<df_final, pc>>
       ELSE /\ df_final' = WithColumn(df_final, "PriceDifference",
                    [i \in 1..Len(df_final.data) |->
                        ObjSub(df_final.data[i]["EndPrice"],
                               df_final.data[i]["StartPrice"])])
            /\ pc' = "L205"
            /\ UNCHANGED err
    /\ UNCHANGED <<esg_csv, price_csv, df_esg, df_prices, start_prices,
                   end_prices, annual_return, df_returns, df_final_filtered,
                   annual_stats, r, p_value, out>>

\* df_final_filtered = df_final[["Symbol", ..., "totalEsg"]]
SelectColumns ==
    /\ At("L205")
    /\ df_final_filtered' = Project(df_final,
            <<"Symbol", "StartPrice", "EndPrice", "AnnualReturn",
              "PriceDifference", "totalEsg">>)
    /\ pc' = "L207"
    /\ UNCHANGED <<esg_csv, price_csv, df_esg, df_prices, start_prices,
                   end_prices, annual_return, df_returns, df_final,
                   annual_stats, r, p_value, out, err>>

\* df_final_filtered[name] = pd.to_numeric(df_final_filtered[name], errors="coerce")
Coerce(line, name, next) ==
    /\ At(line)
    /\ df_final_filtered' = WithColumn(df_final_filtered, name,
            [i \in 1..Len(df_final_filtered.data) |->
                to_numeric(df_final_filtered.data[i][name])])
    /\ pc' = next
    /\ UNCHANGED <<esg_csv, price_csv, df_esg, df_prices, start_prices,
                   end_prices, annual_return, df_returns, df_final,
                   annual_stats, r, p_value, out, err>>

CoerceTotalEsg        == Coerce("L207", "totalEsg", "L208")
CoerceAnnualReturn    == Coerce("L208", "AnnualReturn", "L209")
CoercePriceDifference == Coerce("L209", "PriceDifference", "L212")

\* print(...): the text goes to the output.
Emit(line, texts, next) ==
    /\ At(line)
    /\ out' = out \o texts
    /\ pc' = next
    /\ UNCHANGED <<esg_csv, price_csv, df_esg, df_prices, start_prices,
                   end_prices, annual_return, df_returns, df_final,
                   df_final_filtered, annual_stats, r, p_value, err>>

\* print(df_final_filtered.head())
PrintHead == Emit("L212", <<"df_final_filtered.head()">>, "L246")

\* annual_stats = describe_return(df_final_filtered, "Annual Return Statics")
Describe ==
    /\ At("L246")
    /\ annual_stats' = describe_return(df_final_filtered, "Annual Return Statics")
    /\ pc' = "L247"
    /\ UNCHANGED <<esg_csv, price_csv, df_esg, df_prices, start_prices,
                   end_prices, annual_return, df_returns, df_final,
                   df_final_filtered, r, p_value, out, err>>

\* print(annual_stats)
PrintStats == Emit("L247", <<"annual_stats">>, "L308")

\* The three plotting cells draw figures from df_final_filtered and bind
\* nothing; the figures are not part of the state.
Histogram == Emit("L308", <<>>, "L340")
Scatter   == Emit("L340", <<>>, "L377")
RegPlot   == Emit("L377", <<>>, "L422")

\* r, p_value = stats.pearsonr(df_final_filtered['totalEsg'], df_final_filtered['AnnualReturn'])
Pearson ==
    /\ At("L422")
    /\ LET res == pearsonr(ColumnOf(df_final_filtered, "totalEsg"),
                           ColumnOf(df_final_filtered, "AnnualReturn"))
       IN  IF res.raises # "none"
           THEN err' = res.raises /\ UNCHANGED <<r, p_value, pc>>
           ELSE /\ r' = res.r
                /\ p_value' = res.p
                /\ pc' = "L424"
                /\ UNCHANGED err
    /\ UNCHANGED <<esg_csv, price_csv, df_esg, df_prices, start_prices,
                   end_prices, annual_return, df_returns, df_final,
                   df_final_filtered, annual_stats, out>>

\* The three print lines of the result.
PrintPearson ==
    Emit("L424", <<"Pearson Correlation Test", "Pearson r value", "p-value">>, "L428")

RejectH0       == "Reject H0"
FailToRejectH0 == "Fail to Reject H0"

\* if p_value <= 0.05: print("Reject H0: ...") else: print(" Fail to Reject H0: ...")
VerdictOf(p) == IF LeAlpha(p) THEN RejectH0 ELSE FailToRejectH0

Verdict == Emit("L428", <<VerdictOf(p_value)>>, "done")

Next ==
    \/ ReadEsg
    \/ ReadPrices
    \/ SelectStart
    \/ SelectEnd
    \/ ComputeReturn
    \/ BuildReturns
    \/ Merge
    \/ AddPriceDifference
    \/ SelectColumns
    \/ CoerceTotalEsg
    \/ CoerceAnnualReturn
    \/ CoercePriceDifference
    \/ PrintHead
    \/ Describe
    \/ PrintStats
    \/ Histogram
    \/ Scatter
    \/ RegPlot
    \/ Pearson
    \/ PrintPearson
    \/ Verdict

Spec == Init /\ [][Next]_vars

---------------------------------------------------------------------------
(* Properties *)

Printed(text) == \E i \in 1..Len(out) : out[i] = text

\* The statements after the three coercions of the preparation cell.
AfterCoercion == {"L212", "L246", "L247", "L308", "L340", "L377", "L422",
                  "L424", "L428", "done"}
\* The statements after stats.pearsonr has returned.
AfterPearson  == {"L424", "L428", "done"}

Loaded == df_prices # NotDefined

\* The file row i carries the literal text of the asked date.
FileRowOn(i, literal) == price_csv.rows[i][1] = literal

DateMissing(literal) ==
    \A i \in 1..Len(price_csv.rows) : ~FileRowOn(i, literal)

\* The Series is row i of the price table, cell for cell.
IsRow(series, i) ==
    /\ Len(series) = Len(df_prices.columns)
    /\ \A j \in 1..Len(series) :
          /\ series[j].label = df_prices.columns[j]
          /\ series[j].value = df_prices.data[i][df_prices.columns[j]]

\* The Return Calculator has either failed or bound both rows.
CalculatorSettled == err # "none" \/ pc \notin {"L117", "L118", "L172", "L173"}

Within1e4(v, n, d) ==
    /\ IsNum(v)
    /\ FLe(FSub(v, Num(n, d)), Num(1, 10000))
    /\ FLe(FSub(Num(n, d), v), Num(1, 10000))

ReturnIsTwoPoint(row) ==
    /\ (IsNum(row["StartPrice"]) /\ row["StartPrice"].n # 0 /\ IsNum(row["EndPrice"]))
          => /\ IsNum(row["AnnualReturn"])
             /\ FMul(FAdd(row["AnnualReturn"], Flt(1)), row["StartPrice"])
                    = row["EndPrice"]
    /\ (row["StartPrice"] = Flt(150) /\ row["EndPrice"] = Flt(160))
          => Within1e4(row["AnnualReturn"], 667, 10000)
    /\ (row["StartPrice"] = Flt(800) /\ row["EndPrice"] = Flt(810))
          => Within1e4(row["AnnualReturn"], 125, 10000)

C3_ZeroStartIsMissing ==
    /\ err # "ZeroDivisionError"
    /\ pc \in AfterCoercion
          => \A i \in 1..Len(df_final_filtered.data) :
                df_final_filtered.data[i]["StartPrice"] = Flt(0)
                    => IsNaN(df_final_filtered.data[i]["AnnualReturn"])

EsgFileSymbols   == {esg_csv.rows[i][1] : i \in 1..Len(esg_csv.rows)}
PriceFileSymbols == {price_csv.header[j] : j \in 2..Len(price_csv.header)}
SymbolsOf(df)    == {df.data[i]["Symbol"].s : i \in 1..Len(df.data)}

\* C4: the merged collection holds a record for an identifier exactly when the
\* identifier occurs in both the ESG table and the return table, and the
\* merge raises nothing for the others.
C4_InnerJoin ==
    /\ df_final # NotDefined
          => SymbolsOf(df_final) = EsgFileSymbols \cap PriceFileSymbols
    /\ df_final_filtered # NotDefined
          => SymbolsOf(df_final_filtered) = EsgFileSymbols \cap PriceFileSymbols
    /\ ~(pc = "L202" /\ err # "none")

\* C4's case: the merge has run on tables each holding an identifier the other
\* lacks, and has kept the shared ones.
C4_Witness ==
    /\ df_final # NotDefined
    /\ err = "none"
    /\ EsgFileSymbols \ PriceFileSymbols # {}
    /\ PriceFileSymbols \ EsgFileSymbols # {}
    /\ SymbolsOf(df_final) # {}

\* C5 as stated: whatever non-numeric value a totalEsg or price field holds,
\* neither the statements before the coercion (the return division, the
\* PriceDifference subtraction) nor the coercion raise, and the coerced table
\* holds the missing marker for it.
C5_NonNumericNeverRaises ==
    /\ ~(err # "none" /\ pc \in {"L174", "L176", "L202", "L203", "L205",
                                 "L207", "L208", "L209"})
    /\ pc \in AfterCoercion
          => \A i \in 1..Len(df_final_filtered.data) :
                /\ IsFloat(df_final_filtered.data[i]["totalEsg"])
                /\ IsFloat(df_final_filtered.data[i]["AnnualReturn"])
                /\ IsFloat(df_final_filtered.data[i]["PriceDifference"])
                /\ (IsStr(df_final.data[i]["totalEsg"])
                      /\ df_final.data[i]["totalEsg"].s \notin NumericTokens)
                        => IsNaN(df_final_filtered.data[i]["totalEsg"])

\* The rows of the coerced table in which both values are non-missing.
CompleteRows ==
    Pick(df_final_filtered.data,
         {i \in 1..Len(df_final_filtered.data) :
            /\ ~IsNaN(df_final_filtered.data[i]["totalEsg"])
            /\ ~IsNaN(df_final_filtered.data[i]["AnnualReturn"])})

CompleteEsg    == [i \in 1..Len(CompleteRows) |-> CompleteRows[i]["totalEsg"]]
CompleteReturn == [i \in 1..Len(CompleteRows) |-> CompleteRows[i]["AnnualReturn"]]

\* C6 as stated: r and p are those of the table with the records removed in
\* which totalEsg or AnnualReturn is missing.
C6_MissingPairsExcluded ==
    (pc \in AfterPearson /\ Len(CompleteRows) >= 2)
        => LET res == pearsonr(CompleteEsg, CompleteReturn)
           IN  res.raises = "none" /\ r = res.r /\ p_value = res.p

\* C7 as stated: with fewer than 2 records in which both values are
\* non-missing, the correlation step fails and no r, no p-value and no
\* verdict is printed.
C7_TooFewPairsFails ==
    (pc \in AfterCoercion /\ Len(CompleteRows) < 2)
        => /\ pc \notin AfterPearson
           /\ (pc = "L422" /\ err # "none") => err = "InsufficientDataError"
           /\ ~Printed("Pearson r value")
           /\ ~Printed("p-value")
           /\ ~Printed(RejectH0)
           /\ ~Printed(FailToRejectH0)

\* p > 0.05 (False for NaN).
GtAlpha(p) ==
    CASE p.k = "num"  -> p.n * 100 > AlphaPercent * p.d
      [] p.k = "tail" -> ~FracLe(CritSq(p.size), 1000000, p.n, p.d)
      [] OTHER        -> FALSE

\* C8 as stated: a run that reaches the verdict prints exactly one, "Reject
\* H0" exactly when p <= 0.05 and "Fail to Reject H0" exactly when p > 0.05,
\* and none for a p-value that is not a number.
C8_VerdictFollowsP ==
    pc = "done"
        => /\ Cardinality({i \in 1..Len(out) :
                              out[i] \in {RejectH0, FailToRejectH0}}) = 1
           /\ Printed(RejectH0) <=> (p_value.k # "nan" /\ ~GtAlpha(p_value))
           /\ Printed(FailToRejectH0) <=> GtAlpha(p_value)
           /\ p_value.k # "nan"

NonMissingReturns ==
    {i \in 1..Len(df_final_filtered.data) :
        ~IsNaN(df_final_filtered.data[i]["AnnualReturn"])}

\* C9: the Count describe_return returns is the number of rows of the merged
\* table whose AnnualReturn is non-missing, hence at most the row count.
C9_CountIsNonMissing ==
    annual_stats # NoStats
        => /\ annual_stats.Count = Cardinality(NonMissingReturns)
           /\ annual_stats.Count <= Len(df_final_filtered.data)

\* C9's case: describe_return has run on a table with both missing and
\* non-missing returns.
C9_Witness ==
    /\ annual_stats # NoStats
    /\ annual_stats.Count >= 1
    /\ annual_stats.Count < Len(df_final_filtered.data)

\* C10 as stated: with at least one non-missing value, Range = Max - Min with
\* Min and Max the smallest and largest non-missing values, Range >= 0 and
\* Mean and Median lie between Min and Max.
C10_RangeIsMaxMinusMin ==
    (annual_stats # NoStats /\ annual_stats.Count >= 1)
        => /\ FEq(annual_stats.Range, FSub(annual_stats.Max, annual_stats.Min))
           /\ FLe(Flt(0), annual_stats.Range)
           /\ \A i \in NonMissingReturns :
                 /\ FLe(annual_stats.Min, df_final_filtered.data[i]["AnnualReturn"])
                 /\ FLe(df_final_filtered.data[i]["AnnualReturn"], annual_stats.Max)
           /\ \E i \in NonMissingReturns :
                 annual_stats.Min = df_final_filtered.data[i]["AnnualReturn"]
           /\ \E i \in NonMissingReturns :
                 annual_stats.Max = df_final_filtered.data[i]["AnnualReturn"]
           /\ FLe(annual_stats.Min, annual_stats.Mean)
           /\ FLe(annual_stats.Mean, annual_stats.Max)
           /\ FLe(annual_stats.Min, annual_stats.Median)
           /\ FLe(annual_stats.Median, annual_stats.Max)

\* -1 <= v <= 1 for a reported r (False for NaN).
InMinusOneOne(v) ==
    CASE v.k = "num"  -> -v.d <= v.n /\ v.n <= v.d
      [] v.k = "root" -> -v.d <= v.n /\ v.n <= v.d
      [] OTHER        -> FALSE

\* 0 <= p <= 1 for a reported p-value (False for NaN); a tail probability is
\* one by construction.
InZeroOne(p) ==
    CASE p.k = "num"  -> 0 <= p.n /\ p.n <= p.d
      [] p.k = "tail" -> p.size >= 3
      [] OTHER        -> FALSE

\* C11 as stated: whenever the correlation step has returned, on tables with
\* missing values too, r lies in [-1, 1], the p-value lies in [0, 1], and
\* pearsonr of the swapped columns gives the same r.
C11_RAndPInRange ==
    pc \in AfterPearson
        => /\ InMinusOneOne(r)
           /\ InZeroOne(p_value)
           /\ pearsonr(ColumnOf(df_final_filtered, "AnnualReturn"),
                       ColumnOf(df_final_filtered, "totalEsg")).r = r

\* C12 as stated: the stages run in the order Loader, Return Calculator,
\* Merger/Cleaner, Analyzer (a stage's result is bound only after the results
\* of the stages before it), and a run in which a stage has failed has
\* printed nothing: no preview, no statistics table, no r/p/verdict line.
C12_NoPartialOutput ==
    /\ start_prices # NoSeries => (df_esg # NotDefined /\ df_prices # NotDefined)
    /\ df_final # NotDefined => df_returns # NotDefined
    /\ (annual_stats # NoStats \/ r # StatUnset) => df_final_filtered # NotDefined
    /\ err # "none" => out = <<>>

\* Some value of the price file's Date column does not parse as a date.
DateUnparsable ==
    \E i \in 1..Len(price_csv.rows) : price_csv.rows[i][1] \notin DateTokens

\* C13 as stated: with an unparsable value in the price file's Date column the
\* Loader fails with DataFormatError at the load, and no price table is ever
\* bound whose Date column holds strings.
C13_UnparsableDateFails ==
    /\ (DateUnparsable /\ (pc \notin {"L117", "L118"} \/ err # "none"))
          => (pc = "L118" /\ err = "DataFormatError" /\ df_prices = NotDefined)
    /\ \A i \in 1..Len(df_prices.data) : ~IsStr(df_prices.data[i]["Date"])

\* A table, once bound, is the same in the next state.
Frozen(df, dfNext) == df # NotDefined => dfNext = df

\* C14 as stated: no step modifies a table that has been derived: the ESG and
\* price tables after the load, the merged table after the merge (no column is
\* added or overwritten) and the coerced table during describe_return and the
\* correlation.
C14_TablesImmutable ==
    [][/\ Frozen(df_esg, df_esg')
       /\ Frozen(df_prices, df_prices')
       /\ Frozen(df_returns, df_returns')
       /\ Frozen(df_final, df_final')
       /\ Frozen(df_final_filtered, df_final_filtered')]_vars

\* The value the Series holds under the label.
ValueAt(series, label) ==
    series[CHOOSE j \in 1..Len(series) : series[j].label = label].value

\* The entity columns with a price on both the start-date and the end-date row.
PricedOnBoth ==
    {c \in PriceFileSymbols :
        ~IsNaN(ValueAt(start_prices, c)) /\ ~IsNaN(ValueAt(end_prices, c))}

\* C15 as stated: once the Return Calculator has built its records there is
\* exactly one per entity column priced on both rows and none for any other
\* column, the Date column included, and every record's StartPrice, EndPrice
\* and AnnualReturn are those of the column its Symbol names.
C15_OneRecordPerPricedEntity ==
    df_returns # NotDefined
        => /\ SymbolsOf(df_returns) = PricedOnBoth
           /\ Len(df_returns.data) = Cardinality(PricedOnBoth)
           /\ \A i \in 1..Len(df_returns.data) :
                 LET rec == df_returns.data[i]
                 IN  /\ rec["Symbol"].s \in PriceFileSymbols
                     /\ rec["StartPrice"] = ValueAt(start_prices, rec["Symbol"].s)
                     /\ rec["EndPrice"] = ValueAt(end_prices, rec["Symbol"].s)
                     /\ rec["AnnualReturn"]
                            = ReturnOf(rec["EndPrice"], rec["StartPrice"])

===========================================================================
